---- MODULE Spec2Model ----
(***************************************************************************)
(* Model of the flap sniper bot: the position monitor                      *)
(* (stoploss/stoploss.go) and the event listener (listener package, with   *)
(* main's shutdown goroutine).                                             *)
(*                                                                         *)
(* Amounts are small integers.  Token balances are in whole tokens, native *)
(* valuations in units of 0.1 BNB , USDT quotes in units of 10^14 (so the  *)
(* take-profit threshold 0.0002 USDT is 2 units).                          *)
(*                                                                         *)
(* Every external call (balance, valuation, approve, sell, buy, dial,      *)
(* probe, subscribe) may fail; its outcome is drawn with \E.               *)
(***************************************************************************)
EXTENDS Integers, Sequences, FiniteSets, TLC

VARIABLES
    positions,        \* StopLossMonitor.positions: key -> Position
    stopLossPercent,  \* StopLossMonitor.stopLossPercent
    mu,               \* StopLossMonitor.mu: <<"free">>, <<"tick">> or <<"add", w>>
    mpc,              \* StopLossMonitor.Start: "wait", "locking", "tick", "stopped"
    tickTodo,         \* keys the running `for key, pos := range m.positions` has yet to visit
    tickHist,         \* history: the keys live when the running tick began, and the iterations it ran per key
    mctxDone,         \* StopLossMonitor.ctx is cancelled
    hist,             \* history: per live position, the approve calls and take-profit firings of its lifetime
    log,              \* history: what the step just taken did, if it was an iteration of checkPositions' loop, a handleLog call, a stream error, a failed probe or a reconnect attempt
    lpc,              \* EventListener.Start / subscribe / handleLog / reconnect position
    ctxDone,          \* main's ctx is cancelled
    attempt,          \* reconnect: loop variable `attempt` (0 outside reconnect)
    client,           \* EventListener.client: "open" or "closed"
    dials,            \* history: Dial calls of the current reconnect
    taken,            \* number of events received from the logs channel
    event,            \* the LiquidityAddedEvent handleLog is dispatching (its Base token)
    handled,          \* history: event number -> number of handleLog calls
    verdict,          \* history: event number -> "none", "dropped" (handleLog returned early) or "tax"
    wpc,              \* per wallet goroutine of handleLog: "idle","buy","sleep","lock","add","done"
    wres              \* history: per wallet, what its goroutine did for the current event

vars == <<positions, stopLossPercent, mu, mpc, tickTodo, tickHist, mctxDone, hist, log,
          lpc, ctxDone, attempt, client, dials, taken, event, handled, verdict, wpc, wres>>

monVars == <<positions, stopLossPercent, mu, mpc, tickTodo, tickHist, hist>>
lisVars == <<lpc, attempt, client, dials, taken, event, handled, verdict>>
walVars == <<wpc, wres>>
sigVars == <<mctxDone, ctxDone>>

(***************************************************************************)
(* Bounds of the model                                                     *)
(***************************************************************************)
NumWallets == 2
MaxBalance == 3
MaxPrice == 3
MaxEvents == 2
MaxTaxEvents == 1

Wallets == 0 .. (NumWallets - 1)
Tokens == {"tok"}
Balances == 0 .. MaxBalance
Prices == 0 .. MaxPrice

(***************************************************************************)
(* Program constants                                                       *)
(***************************************************************************)
TakeProfitPriceUSDT == 2
Quotes == (TakeProfitPriceUSDT - 1) .. (TakeProfitPriceUSDT + 1)
TakeProfitSellPercent == 70
maxReconnectAttempts == 10
DefaultStopLossPercent == 20
UnparsableStopLossPercent == 0
DefaultBuyAmount == 1

StopLossPercents == {UnparsableStopLossPercent, DefaultStopLossPercent}

\* WalletInfo.BuyAmountWei, computed once in main from the configured amount
BuyAmountWei(w) == DefaultBuyAmount

\* result of an external call: failed, or returned v
Fail == [ok |-> FALSE, v |-> 0]
Ok(n) == [ok |-> TRUE, v |-> n]
Results(S) == {Fail} \cup {Ok(n) : n \in S}

\* what the chain may answer: every value (and every iteration of
\* checkPositions' loop is logged), or only the extreme ones (and none is)
AllData == [balances |-> Results(Balances), prices |-> Results(Prices), trace |-> "all"]
EdgeData == [balances |-> Results({0, MaxBalance}), prices |-> Results({0, DefaultBuyAmount}),
             trace |-> "none"]

\* main returns, and the process ends, as soon as EventListener.Start returns
Alive == lpc \notin {"done_nil", "done_err"}

(***************************************************************************)
(* stoploss.go                                                             *)
(***************************************************************************)

\* string(rune(walletIndex)): an invalid code point converts to U+FFFD
RuneOf(i) == IF i < 0 \/ i > 1114111 \/ (i >= 55296 /\ i <= 57343) THEN 65533 ELSE i

positionKey(walletIndex, tokenAddress) == <<tokenAddress, RuneOf(walletIndex)>>

Keys == {positionKey(w, t) : w \in Wallets, t \in Tokens}

Live == DOMAIN positions

\* history of a position just registered: the outcomes of the approve calls of
\* its lifetime, in order, and the number of times its take-profit rule fired
FreshHist == [approvals |-> << >>, tpFires |-> 0]

\* the working history of one iteration of checkPositions' loop
Working(h) == [approvals |-> h.approvals, tpFires |-> h.tpFires, slTriggers |-> 0,
               sells |-> << >>, approves |-> << >>, valuations |-> 0]

Stored(h) == [approvals |-> h.approvals, tpFires |-> h.tpFires]

\* what one iteration saw: the take-profit flag it found, what GetTokenBalance,
\* GetTokenPriceInUSDT and GetTokenPrice answered (Fail when not called), and the
\* drop percentage computed from the latter
BalanceClass(balance) ==
    IF ~balance.ok THEN "err" ELSE IF balance.v <= 0 THEN "zero" ELSE "pos"

Observed(pos, balance, quote, price, drop) ==
    [wasDone |-> pos.TakeProfitDone, balance |-> BalanceClass(balance),
     quoted |-> quote.ok, quote |-> quote.v,
     priced |-> price.ok, cur |-> price.v, drop |-> drop]

\* what one iteration did: whether it got past the balance refresh, whether it
\* removed the position, the position's fields after it, the lifetime history,
\* what the chain answered, and the approve, sell and valuation calls it issued
LogEntry(key, refreshed, removed, pos, before, h, obs) ==
    [key |-> key, refreshed |-> refreshed, removed |-> removed,
     approved |-> pos.Approved, takeProfitDone |-> pos.TakeProfitDone,
     initial |-> pos.InitialTokenAmount, ref |-> pos.BuyPriceWei,
     approvals |-> h.approvals, tpFires |-> h.tpFires,
     tpNow |-> h.tpFires - before.tpFires,
     slTriggers |-> h.slTriggers, sells |-> h.sells,
     approves |-> h.approves, valuations |-> h.valuations,
     wasDone |-> obs.wasDone, balance |-> obs.balance,
     quoted |-> obs.quoted, quote |-> obs.quote,
     priced |-> obs.priced, cur |-> obs.cur, drop |-> obs.drop]

\* calculateDropPercent that takes a zero buy price for a total loss
calculateDropPercent_ZeroIsTotalLoss(buyPrice, currentPrice) ==
    IF buyPrice = 0 THEN 100
    ELSE IF buyPrice - currentPrice <= 0 THEN 0
    ELSE ((buyPrice - currentPrice) * 100) \div buyPrice

calculateDropPercent(buyPrice, currentPrice) ==
    IF buyPrice = 0 THEN 0
    ELSE IF buyPrice - currentPrice <= 0 THEN 0
    ELSE ((buyPrice - currentPrice) * 100) \div buyPrice

\* executeSell that goes on to SellToken after a failed ApproveToken
executeSell_SellsUnapproved(ph, amount, rule, approveOK, sellOK) ==
    LET pos == ph[1]
        h == ph[2]
        sold == [rule |-> rule, amount |-> amount, held |-> pos.TokenAmount, sent |-> sellOK]
    IN  IF ~pos.Approved
        THEN <<[pos EXCEPT !.Approved = approveOK],
               [h EXCEPT !.approvals = Append(@, approveOK),
                         !.approves = Append(@, [rule |-> rule, ok |-> approveOK]),
                         !.sells = Append(@, sold)]>>
        ELSE <<pos, [h EXCEPT !.sells = Append(@, sold)]>>

\* executeSell that does not look at pos.Approved
executeSell_AlwaysApproves(ph, amount, rule, approveOK, sellOK) ==
    LET pos == ph[1]
        h == ph[2]
        sold == [rule |-> rule, amount |-> amount, held |-> pos.TokenAmount, sent |-> sellOK]
    IN  IF ~approveOK
        THEN <<pos, [h EXCEPT !.approvals = Append(@, FALSE),
                              !.approves = Append(@, [rule |-> rule, ok |-> FALSE])]>>
        ELSE <<[pos EXCEPT !.Approved = TRUE],
               [h EXCEPT !.approvals = Append(@, TRUE),
                         !.approves = Append(@, [rule |-> rule, ok |-> TRUE]),
                         !.sells = Append(@, sold)]>>

\* executeSell on the pair <<position, history>>; approveOK and sellOK are the
\* outcomes of ApproveToken and SellToken when they are called
executeSell(ph, amount, rule, approveOK, sellOK) ==
    LET pos == ph[1]
        h == ph[2]
        sold == [rule |-> rule, amount |-> amount, held |-> pos.TokenAmount, sent |-> sellOK]
    IN  IF ~pos.Approved
        THEN IF ~approveOK
             THEN <<pos, [h EXCEPT !.approvals = Append(@, FALSE),
                                   !.approves = Append(@, [rule |-> rule, ok |-> FALSE])]>>
             ELSE <<[pos EXCEPT !.Approved = TRUE],
                    [h EXCEPT !.approvals = Append(@, TRUE),
                              !.approves = Append(@, [rule |-> rule, ok |-> TRUE]),
                              !.sells = Append(@, sold)]>>
        ELSE <<pos, [h EXCEPT !.sells = Append(@, sold)]>>

\* the take-profit amount without the cap at the current balance
TakeProfitAmount_NoCap(pos) ==
    (pos.InitialTokenAmount * TakeProfitSellPercent) \div 100

\* the take-profit amount taken from the current balance, not the initial one
TakeProfitAmount_OfBalance(pos) ==
    LET sellAmount == (pos.TokenAmount * TakeProfitSellPercent) \div 100
    IN  IF sellAmount > pos.TokenAmount THEN pos.TokenAmount ELSE sellAmount

\* the amount checkTakeProfit sells
TakeProfitAmount(pos) ==
    LET sellAmount == (pos.InitialTokenAmount * TakeProfitSellPercent) \div 100
    IN  IF sellAmount > pos.TokenAmount THEN pos.TokenAmount ELSE sellAmount

\* checkTakeProfit that sets TakeProfitDone only when it sold something
checkTakeProfit_FlagOnlyOnSell(ph, quote, approveOK, sellOK) ==
    LET called == <<ph[1], [ph[2] EXCEPT !.valuations = @ + 1]>>
    IN  IF ~quote.ok THEN called
        ELSE IF quote.v >= TakeProfitPriceUSDT
             THEN LET sellAmount == TakeProfitAmount(called[1])
                      after == IF sellAmount > 0
                               THEN executeSell(called, sellAmount, "tp", approveOK, sellOK)
                               ELSE called
                  IN  <<[after[1] EXCEPT !.TakeProfitDone = (sellAmount > 0)],
                        [after[2] EXCEPT !.tpFires = @ + 1]>>
             ELSE called

\* checkTakeProfit; quote is the result of GetTokenPriceInUSDT for one token
checkTakeProfit(ph, quote, approveOK, sellOK) ==
    LET called == <<ph[1], [ph[2] EXCEPT !.valuations = @ + 1]>>
    IN  IF ~quote.ok THEN called
        ELSE IF quote.v >= TakeProfitPriceUSDT
             THEN LET sellAmount == TakeProfitAmount(called[1])
                      after == IF sellAmount > 0
                               THEN executeSell(called, sellAmount, "tp", approveOK, sellOK)
                               ELSE called
                  IN  <<[after[1] EXCEPT !.TakeProfitDone = TRUE],
                        [after[2] EXCEPT !.tpFires = @ + 1]>>
             ELSE called

\* whether the stop-loss rule of checkPositions fires
StopLossHit(pos, currentPrice) ==
    calculateDropPercent(pos.BuyPriceWei, currentPrice) >= stopLossPercent

Remove(f, k) == [x \in (DOMAIN f) \ {k} |-> f[x]]

Put(f, k, v) == [x \in (DOMAIN f) \cup {k} |-> IF x = k THEN v ELSE f[x]]

NewPosition(walletIndex, tokenAddress, currentPrice, balance) ==
    [TokenAddress |-> tokenAddress, BuyPriceWei |-> currentPrice,
     TokenAmount |-> balance, InitialTokenAmount |-> balance,
     WalletIndex |-> walletIndex, Sold |-> FALSE, Approved |-> FALSE,
     TakeProfitDone |-> FALSE]

\* the early returns with `< 0` in place of `<= 0`
AddPositionDrops_ZeroPasses(balance) == ~balance.ok \/ balance.v < 0

\* AddPosition's early returns: the balance query failed or returned <= 0
AddPositionDrops(balance) == ~balance.ok \/ balance.v <= 0

\* AddPosition after m.mu.Lock(): the new value of <<positions, hist>>, and
\* whether a position was inserted
AddPosition(walletIndex, tokenAddress, buyAmountWei, balance, price) ==
    IF AddPositionDrops(balance) THEN <<positions, hist, FALSE>>
    ELSE LET currentPrice == IF price.ok THEN price.v ELSE buyAmountWei
             key == positionKey(walletIndex, tokenAddress)
         IN  <<Put(positions, key, NewPosition(walletIndex, tokenAddress, currentPrice, balance.v)),
               Put(hist, key, FreshHist), TRUE>>

\* the balance refresh that lets a zero balance through
BalanceUnusable_ZeroPasses(balance) == ~balance.ok \/ balance.v < 0

\* checkPositions: `err != nil || balance.Cmp(big.NewInt(0)) <= 0`, then continue
BalanceUnusable(balance) == ~balance.ok \/ balance.v <= 0

\* one iteration of the range loop of checkPositions, for key: the new value of
\* <<positions, hist>> and the log entry, given the outcomes of the external calls
EvalPosition(key, balance, quote, tpApprove, tpSell, price, slApprove, slSell) ==
    LET pos == positions[key]
        h0 == Working(hist[key])
        Skip == <<positions, hist,
                  LogEntry(key, FALSE, FALSE, pos, h0, h0, Observed(pos, balance, Fail, Fail, 0))>>
        Keep(ph, obs) == <<[positions EXCEPT ![key] = ph[1]],
                           [hist EXCEPT ![key] = Stored(ph[2])],
                           LogEntry(key, TRUE, FALSE, ph[1], h0, ph[2], obs)>>
    IN  IF pos.Sold THEN Skip
        ELSE IF BalanceUnusable(balance) THEN Skip
        ELSE LET ph0 == <<[pos EXCEPT !.TokenAmount = balance.v], h0>>
                 ph1 == IF ~pos.TakeProfitDone
                        THEN checkTakeProfit(ph0, quote, tpApprove, tpSell)
                        ELSE ph0
                 ph1p == <<ph1[1], [ph1[2] EXCEPT !.valuations = @ + 1]>>
             IN  IF ~price.ok THEN Keep(ph1p, Observed(pos, balance, quote, Fail, 0))
                 ELSE LET drop == calculateDropPercent(ph1p[1].BuyPriceWei, price.v)
                          obs == Observed(pos, balance, quote, price, drop)
                      IN  IF StopLossHit(ph1p[1], price.v)
                          THEN LET ph2 == executeSell(ph1p, ph1p[1].TokenAmount, "sl",
                                                      slApprove, slSell)
                               IN  <<Remove(positions, key), Remove(hist, key),
                                     LogEntry(key, TRUE, TRUE, ph2[1], h0,
                                              [ph2[2] EXCEPT !.slTriggers = @ + 1], obs)>>
                          ELSE Keep(ph1p, obs)

(***************************************************************************)
(* StopLossMonitor.Start and checkPositions                                *)
(***************************************************************************)

\* select: the ticker case (chosen at random when ctx.Done() is ready too)
MonitorTickFire ==
    /\ Alive
    /\ mpc = "wait"
    /\ mpc' = "locking"
    /\ UNCHANGED <<positions, stopLossPercent, mu, tickTodo, tickHist, hist>>
    /\ UNCHANGED <<lisVars, walVars, sigVars>>
    /\ log' = {}

\* select: case <-m.ctx.Done(): return
MonitorExit ==
    /\ Alive
    /\ mpc = "wait"
    /\ mctxDone
    /\ mpc' = "stopped"
    /\ UNCHANGED <<positions, stopLossPercent, mu, tickTodo, tickHist, hist>>
    /\ UNCHANGED <<lisVars, walVars, sigVars>>
    /\ log' = {}

\* no tick is running
NoTick == [start |-> {}, evals |-> [k \in Keys |-> 0], skipped |-> {}]

\* a checkPositions that does not take m.mu
TickLock_NoMutex ==
    /\ Alive
    /\ mpc = "locking"
    /\ mu' = <<"tick">>
    /\ mpc' = "tick"
    /\ tickTodo' = Live
    /\ tickHist' = [NoTick EXCEPT !.start = Live]
    /\ UNCHANGED <<positions, stopLossPercent, hist>>
    /\ UNCHANGED <<lisVars, walVars, sigVars>>
    /\ log' = {}

\* checkPositions: m.mu.Lock(), and the range loop starts
TickLock ==
    /\ Alive
    /\ mpc = "locking"
    /\ mu = <<"free">>
    /\ mu' = <<"tick">>
    /\ mpc' = "tick"
    /\ tickTodo' = Live
    /\ tickHist' = [NoTick EXCEPT !.start = Live]
    /\ UNCHANGED <<positions, stopLossPercent, hist>>
    /\ UNCHANGED <<lisVars, walVars, sigVars>>
    /\ log' = {}

\* whether the iteration with entry e is logged: all are, none is, or only
\* those whose GetTokenBalance failed or returned a balance <= 0
Traced(data, e) == data.trace = "all" \/ (data.trace = "skips" /\ e.balance # "pos")

\* checkPositions: one iteration of the range loop
TickEval(key, data) ==
    /\ Alive
    /\ mpc = "tick"
    /\ key \in tickTodo
    /\ LET pos == positions[key]
       IN  \E balance \in data.balances :
           \E quote \in (IF balance.ok /\ balance.v > 0 /\ ~pos.TakeProfitDone
                         THEN Results(Quotes) ELSE {Fail}) :
           \E tpApprove \in (IF quote.ok /\ quote.v >= TakeProfitPriceUSDT /\ ~pos.Approved
                             THEN BOOLEAN ELSE {TRUE}) :
           \E tpSell \in (IF quote.ok /\ quote.v >= TakeProfitPriceUSDT /\ tpApprove
                          THEN BOOLEAN ELSE {TRUE}) :
           \E price \in (IF balance.ok /\ balance.v > 0 THEN data.prices ELSE {Fail}) :
           \E slApprove \in (IF price.ok THEN BOOLEAN ELSE {TRUE}) :
           \E slSell \in (IF price.ok /\ slApprove THEN BOOLEAN ELSE {TRUE}) :
              LET r == EvalPosition(key, balance, quote, tpApprove, tpSell,
                                    price, slApprove, slSell)
              IN  /\ positions' = r[1]
                  /\ hist' = r[2]
                  /\ log' = IF Traced(data, r[3]) THEN {r[3]} ELSE {}
                  /\ tickHist' = [tickHist EXCEPT
                                     !.evals[key] = @ + 1,
                                     !.skipped = IF Traced(data, r[3]) /\ r[3].balance # "pos"
                                                 THEN @ \cup {key} ELSE @]
                  /\ wres' = [w \in Wallets |->
                                IF event.base # "none" /\ positionKey(w, event.base) = key
                                   /\ key \notin DOMAIN r[1]
                                THEN [wres[w] EXCEPT !.lost = wres[w].reg]
                                ELSE wres[w]]
    /\ tickTodo' = tickTodo \ {key}
    /\ UNCHANGED <<stopLossPercent, mu, mpc, wpc>>
    /\ UNCHANGED <<lisVars, sigVars>>

\* checkPositions: the range loop is over, the deferred m.mu.Unlock() runs
TickUnlock ==
    /\ Alive
    /\ mpc = "tick"
    /\ tickTodo = {}
    /\ mu' = <<"free">>
    /\ mpc' = "wait"
    /\ tickHist' = NoTick
    /\ UNCHANGED <<positions, stopLossPercent, tickTodo, hist>>
    /\ UNCHANGED <<lisVars, walVars, sigVars>>
    /\ log' = {}

(***************************************************************************)
(* listener: handleLog's per-wallet goroutines                             *)
(***************************************************************************)

NoRes == [buys |-> 0, buy |-> "none", bal |-> "none", reg |-> FALSE, lost |-> FALSE]

\* wallet.Swapper.BuyToken returns
WalletBuy(w) ==
    /\ Alive
    /\ wpc[w] = "buy"
    /\ \E ok \in BOOLEAN :
          /\ wpc' = [wpc EXCEPT ![w] = IF ok THEN "sleep" ELSE "done"]
          /\ wres' = [wres EXCEPT ![w].buys = @ + 1,
                                  ![w].buy = IF ok THEN "ok" ELSE "fail"]
    /\ UNCHANGED <<monVars, lisVars, sigVars>>
    /\ log' = {}

\* time.Sleep(5 * time.Second) is over, AddPosition is called and waits for m.mu
WalletSettle(w) ==
    /\ Alive
    /\ wpc[w] = "sleep"
    /\ wpc' = [wpc EXCEPT ![w] = "lock"]
    /\ UNCHANGED wres
    /\ UNCHANGED <<monVars, lisVars, sigVars>>
    /\ log' = {}

\* an AddPosition whose early returns leave m.mu locked
AddPositionUnlock_OnInsertOnly(w, inserted) ==
    IF inserted THEN <<"free">> ELSE <<"add", w>>

\* AddPosition: `defer m.mu.Unlock()` runs on every return
AddPositionUnlock(w, inserted) == <<"free">>

\* AddPosition: m.mu.Lock()
WalletAddLock(w) ==
    /\ Alive
    /\ wpc[w] = "lock"
    /\ mu = <<"free">>
    /\ mu' = <<"add", w>>
    /\ wpc' = [wpc EXCEPT ![w] = "add"]
    /\ UNCHANGED wres
    /\ UNCHANGED <<positions, stopLossPercent, mpc, tickTodo, tickHist, hist>>
    /\ UNCHANGED <<lisVars, sigVars>>
    /\ log' = {}

\* AddPosition: the body, and the deferred m.mu.Unlock(); the goroutine ends
WalletAddPosition(w, data) ==
    /\ Alive
    /\ wpc[w] = "add"
    /\ mu = <<"add", w>>
    /\ \E balance \in data.balances :
       \E price \in (IF AddPositionDrops(balance) THEN {Fail} ELSE data.prices) :
          LET r == AddPosition(w, event.base, BuyAmountWei(w), balance, price)
          IN  /\ positions' = r[1]
              /\ hist' = r[2]
              /\ wres' = [wres EXCEPT ![w].bal = BalanceClass(balance),
                                      ![w].reg = r[3],
                                      ![w].lost = FALSE]
    /\ mu' = AddPositionUnlock(w, wres'[w].reg)
    /\ wpc' = [wpc EXCEPT ![w] = "done"]
    /\ UNCHANGED <<stopLossPercent, mpc, tickTodo, tickHist>>
    /\ UNCHANGED <<lisVars, sigVars>>
    /\ log' = {}

(***************************************************************************)
(* listener: Start, subscribe, handleLog, healthCheck, reconnect           *)
(***************************************************************************)

\* Start: case <-ctx.Done(): return nil
StartCancelled ==
    /\ lpc = "loop"
    /\ ctxDone
    /\ lpc' = "done_nil"
    /\ UNCHANGED <<attempt, client, dials, taken, event, handled, verdict>>
    /\ UNCHANGED <<monVars, walVars, sigVars>>
    /\ log' = {}

\* Start: default: l.subscribe(ctx), up to the result of SubscribeFilterLogs
Subscribe ==
    /\ lpc = "loop"
    /\ ~ctxDone
    /\ \E ok \in BOOLEAN : lpc' = IF ok THEN "active" ELSE "suberr"
    /\ dials' = 0
    /\ UNCHANGED <<attempt, client, taken, event, handled, verdict>>
    /\ UNCHANGED <<monVars, walVars, sigVars>>
    /\ log' = {}

\* subscribe: case err := <-sub.Err()
StreamError ==
    /\ lpc = "active"
    /\ lpc' = "suberr"
    /\ UNCHANGED <<attempt, client, dials, taken, event, handled, verdict>>
    /\ UNCHANGED <<monVars, walVars, sigVars>>
    /\ log' = {[event |-> taken, outcome |-> "streamerr"]}

\* a dispatch that starts a goroutine for the first wallet only
Dispatch_FirstOnly ==
    [w \in Wallets |-> IF \A v \in Wallets : w <= v THEN "buy" ELSE "done"]

\* handleLog's wg.Wait() is reached only after every wallet got its goroutine
Dispatch == [w \in Wallets |-> "buy"]

\* a handleLog that goes on to buy when IsTaxToken failed
Qualifies_OnClassError(outcome) == outcome \in {"tax", "classerr"}

\* handleLog gets past its three early returns
Qualifies(outcome) == outcome = "tax"

\* what the next event can be: at most MaxTaxEvents events are of tax tokens
Outcomes ==
    {"badparse", "classerr", "nottax"} \cup
        (IF Cardinality({e \in 1 .. MaxEvents : verdict[e] = "tax"}) < MaxTaxEvents
         THEN {"tax"} ELSE {})

\* subscribe: case vLog := <-logs: handleLog(vLog), up to wg.Wait().
\* outcome: the payload does not parse, IsTaxToken fails, the token is not a
\* tax token, or it is one
HandleLog ==
    /\ lpc = "active"
    /\ taken < MaxEvents
    /\ taken' = taken + 1
    /\ handled' = [handled EXCEPT ![taken + 1] = @ + 1]
    /\ \E outcome \in Outcomes :
       \E base \in Tokens :
          /\ log' = {[event |-> taken + 1, outcome |-> outcome]}
          /\ IF Qualifies(outcome)
             THEN /\ event' = [base |-> base]
                  /\ wpc' = Dispatch
                  /\ wres' = [w \in Wallets |-> NoRes]
                  /\ lpc' = "barrier"
                  /\ verdict' = [verdict EXCEPT ![taken + 1] = "tax"]
             ELSE /\ verdict' = [verdict EXCEPT ![taken + 1] = "dropped"]
                  /\ UNCHANGED <<event, wpc, wres, lpc>>
    /\ UNCHANGED <<attempt, client, dials>>
    /\ UNCHANGED <<monVars, sigVars>>

\* a wg.Wait() that does not wait
BarrierOpen_NoWait == TRUE

\* whether wg.Wait() returns
BarrierOpen == \A w \in Wallets : wpc[w] = "done"

\* handleLog: wg.Wait() returns, handleLog returns to the select loop
Barrier ==
    /\ lpc = "barrier"
    /\ BarrierOpen
    /\ lpc' = "active"
    /\ wpc' = [w \in Wallets |-> IF wpc[w] = "done" THEN "idle" ELSE wpc[w]]
    /\ wres' = [w \in Wallets |-> NoRes]
    /\ event' = [base |-> "none"]
    /\ UNCHANGED <<attempt, client, dials, taken, handled, verdict>>
    /\ UNCHANGED <<monVars, sigVars>>
    /\ log' = {}

\* a failed liveness probe that makes Start return an error
HealthCheck_Fatal ==
    /\ lpc = "active"
    /\ \E ok \in BOOLEAN : lpc' = IF ok THEN "active" ELSE "done_err"
    /\ UNCHANGED <<attempt, client, dials, taken, event, handled, verdict>>
    /\ UNCHANGED <<monVars, walVars, sigVars>>
    /\ log' = {}

\* a failed liveness probe that is only logged
HealthCheck_IgnoresFailure ==
    /\ lpc = "active"
    /\ \E ok \in BOOLEAN :
          /\ lpc' = "active"
          /\ log' = IF ok THEN {} ELSE {[event |-> taken, outcome |-> "probefail"]}
    /\ UNCHANGED <<attempt, client, dials, taken, event, handled, verdict>>
    /\ UNCHANGED <<monVars, walVars, sigVars>>

\* subscribe: case <-healthTicker.C: healthCheck; on failure subscribe returns
\* an error (and its deferred sub.Unsubscribe() runs)
HealthCheck ==
    /\ lpc = "active"
    /\ \E ok \in BOOLEAN :
          /\ lpc' = IF ok THEN "active" ELSE "suberr"
          /\ log' = IF ok THEN {} ELSE {[event |-> taken, outcome |-> "probefail"]}
    /\ UNCHANGED <<attempt, client, dials, taken, event, handled, verdict>>
    /\ UNCHANGED <<monVars, walVars, sigVars>>

\* subscribe: case <-ctx.Done(): return nil; Start sees err == nil and loops
SubscribeCancelled ==
    /\ lpc = "active"
    /\ ctxDone
    /\ lpc' = "loop"
    /\ UNCHANGED <<attempt, client, dials, taken, event, handled, verdict>>
    /\ UNCHANGED <<monVars, walVars, sigVars>>
    /\ log' = {}

\* Start: subscribe returned an error; case <-ctx.Done(): return nil
ErrorCancelled ==
    /\ lpc = "suberr"
    /\ ctxDone
    /\ lpc' = "done_nil"
    /\ UNCHANGED <<attempt, client, dials, taken, event, handled, verdict>>
    /\ UNCHANGED <<monVars, walVars, sigVars>>
    /\ log' = {}

\* Start: default: l.reconnect(); reconnect closes l.client and enters its loop
ReconnectBegin ==
    /\ lpc = "suberr"
    /\ ~ctxDone
    /\ lpc' = "reconnect"
    /\ client' = "closed"
    /\ attempt' = 1
    /\ dials' = 0
    /\ UNCHANGED <<taken, event, handled, verdict>>
    /\ UNCHANGED <<monVars, walVars, sigVars>>
    /\ log' = {}

\* the loop condition with `<` in place of `<=`
MoreAttempts_OffByOne == attempt < maxReconnectAttempts

\* reconnect: the loop condition attempt <= maxReconnectAttempts
MoreAttempts == attempt <= maxReconnectAttempts

\* a reconnect that takes the dialed handle without probing it
Accepts_WithoutProbe(dialOK, probeOK) == dialOK

\* reconnect: `l.client = client` is reached: Dial and BlockNumber succeeded
Accepts(dialOK, probeOK) == dialOK /\ probeOK

\* reconnect: client.Close() on the dialed handle, after BlockNumber failed
ClosesNew(dialOK, probeOK) == dialOK /\ ~probeOK

\* reconnect: one iteration: Dial, BlockNumber, and on failure the sleep;
\* the attempt is logged if trace says so
ReconnectAttempt(trace) ==
    /\ lpc = "reconnect"
    /\ MoreAttempts
    /\ dials' = dials + 1
    /\ \E dialOK \in BOOLEAN :
       \E probeOK \in (IF dialOK THEN BOOLEAN ELSE {FALSE}) :
          /\ log' = IF trace
                    THEN {[event |-> taken, outcome |-> "attempt",
                           dialed |-> dialOK, probed |-> probeOK,
                           installed |-> Accepts(dialOK, probeOK),
                           closedNew |-> ClosesNew(dialOK, probeOK)]}
                    ELSE {}
          /\ IF Accepts(dialOK, probeOK)
             THEN /\ client' = IF ClosesNew(dialOK, probeOK) THEN "closed" ELSE "open"
                  /\ attempt' = 0
                  /\ lpc' = "loop"
             ELSE /\ attempt' = attempt + 1
                  /\ UNCHANGED <<client, lpc>>
    /\ UNCHANGED <<taken, event, handled, verdict>>
    /\ UNCHANGED <<monVars, walVars, sigVars>>

\* reconnect: the loop is over, the error is returned, and Start returns it
ReconnectGiveUp ==
    /\ lpc = "reconnect"
    /\ ~MoreAttempts
    /\ lpc' = "done_err"
    /\ UNCHANGED <<attempt, client, dials, taken, event, handled, verdict>>
    /\ UNCHANGED <<monVars, walVars, sigVars>>
    /\ log' = {}

(***************************************************************************)
(* main: the shutdown goroutine                                            *)
(***************************************************************************)

\* <-sigChan; stopLossMonitor.Stop()
SignalStop ==
    /\ Alive
    /\ ~mctxDone
    /\ mctxDone' = TRUE
    /\ UNCHANGED <<ctxDone, monVars, lisVars, walVars>>
    /\ log' = {}

\* cancel()
SignalCancel ==
    /\ Alive
    /\ mctxDone
    /\ ~ctxDone
    /\ ctxDone' = TRUE
    /\ UNCHANGED <<mctxDone, monVars, lisVars, walVars>>
    /\ log' = {}

(***************************************************************************)
(* The system                                                              *)
(***************************************************************************)

Init ==
    /\ positions = << >>
    /\ stopLossPercent \in StopLossPercents
    /\ mu = <<"free">>
    /\ mpc = "wait"
    /\ tickTodo = {}
    /\ tickHist = NoTick
    /\ mctxDone = FALSE
    /\ hist = << >>
    /\ log = {}
    /\ lpc = "loop"
    /\ ctxDone = FALSE
    /\ attempt = 0
    /\ client = "open"
    /\ dials = 0
    /\ taken = 0
    /\ event = [base |-> "none"]
    /\ handled = [e \in 1 .. MaxEvents |-> 0]
    /\ verdict = [e \in 1 .. MaxEvents |-> "none"]
    /\ wpc = [w \in Wallets |-> "idle"]
    /\ wres = [w \in Wallets |-> NoRes]

Next ==
    \/ MonitorTickFire
    \/ MonitorExit
    \/ TickLock
    \/ \E key \in Keys : TickEval(key, EdgeData)
    \/ TickUnlock
    \/ \E w \in Wallets : WalletBuy(w)
    \/ \E w \in Wallets : WalletSettle(w)
    \/ \E w \in Wallets : WalletAddLock(w)
    \/ \E w \in Wallets : WalletAddPosition(w, EdgeData)
    \/ StartCancelled
    \/ Subscribe
    \/ StreamError
    \/ HandleLog
    \/ Barrier
    \/ HealthCheck
    \/ SubscribeCancelled
    \/ ErrorCancelled
    \/ ReconnectBegin
    \/ ReconnectAttempt(FALSE)
    \/ ReconnectGiveUp
    \/ SignalStop
    \/ SignalCancel

Spec == Init /\ [][Next]_vars

\* the monitor goroutine runs on: the ticker fires, every call of an iteration
\* returns, and checkPositions gets the mutex it waits for
MonitorProgress(data) ==
    /\ WF_vars(MonitorTickFire \/ MonitorExit \/ TickUnlock
                  \/ \E key \in Keys : TickEval(key, data))
    /\ SF_vars(TickLock)

(***************************************************************************)
(* The listener and its goroutines while the monitor's ticker does not     *)
(* fire, with the reconnect attempts logged                                *)
(***************************************************************************)

NextListener ==
    \/ \E w \in Wallets : WalletBuy(w)
    \/ \E w \in Wallets : WalletSettle(w)
    \/ \E w \in Wallets : WalletAddLock(w)
    \/ \E w \in Wallets : WalletAddPosition(w, EdgeData)
    \/ StartCancelled
    \/ Subscribe
    \/ StreamError
    \/ HandleLog
    \/ Barrier
    \/ HealthCheck
    \/ SubscribeCancelled
    \/ ErrorCancelled
    \/ ReconnectBegin
    \/ ReconnectAttempt(TRUE)
    \/ ReconnectGiveUp
    \/ SignalStop
    \/ SignalCancel

SpecListener == Init /\ [][NextListener]_vars

\* the steps the goroutine running Start takes by itself: everything but the
\* arrival of a log or of a subscription error; the health ticker fires every
\* healthCheckInterval
ListenerProgress(trace) ==
    \/ StartCancelled
    \/ Subscribe
    \/ Barrier
    \/ HealthCheck
    \/ SubscribeCancelled
    \/ ErrorCancelled
    \/ ReconnectBegin
    \/ ReconnectAttempt(trace)
    \/ ReconnectGiveUp

\* the goroutine of wallet w runs on, and gets the mutex it waits for:
\* sync.Mutex hands the lock to a waiter that has waited for more than 1 ms
WalletProgress(w, data) ==
    /\ WF_vars(WalletBuy(w) \/ WalletSettle(w) \/ WalletAddPosition(w, data))
    /\ SF_vars(WalletAddLock(w))

\* the answers of the chain that decide which way AddPosition and an
\* iteration of checkPositions return: a failed or a positive balance, and a
\* valuation equal to the reference price
LiveData ==
    [balances |-> {Fail, Ok(MaxBalance)},
     prices   |-> {Ok(DefaultBuyAmount)},
     trace    |-> "none"]

NextLive ==
    \/ MonitorTickFire
    \/ MonitorExit
    \/ TickLock
    \/ \E key \in Keys : TickEval(key, LiveData)
    \/ TickUnlock
    \/ \E w \in Wallets : WalletBuy(w)
    \/ \E w \in Wallets : WalletSettle(w)
    \/ \E w \in Wallets : WalletAddLock(w)
    \/ \E w \in Wallets : WalletAddPosition(w, LiveData)
    \/ StartCancelled
    \/ Subscribe
    \/ StreamError
    \/ HandleLog
    \/ Barrier
    \/ HealthCheck
    \/ SubscribeCancelled
    \/ ErrorCancelled
    \/ ReconnectBegin
    \/ ReconnectAttempt(FALSE)
    \/ ReconnectGiveUp
    \/ SignalStop
    \/ SignalCancel

\* the whole system with every goroutine scheduled, and every call returning
SpecFair ==
    /\ Init
    /\ [][NextLive]_vars
    /\ WF_vars(ListenerProgress(FALSE))
    /\ \A w \in Wallets : WalletProgress(w, LiveData)
    /\ MonitorProgress(LiveData)

\* the listener with its goroutines scheduled, and every call returning
SpecListenerFair ==
    /\ Init
    /\ [][NextListener]_vars
    /\ WF_vars(ListenerProgress(TRUE))
    /\ \A w \in Wallets : WalletProgress(w, EdgeData)

(***************************************************************************)
(* The monitor alone, with one client goroutine that calls AddPosition at  *)
(* any time, and every value the chain may answer                          *)
(***************************************************************************)

Client == CHOOSE w \in Wallets : \A v \in Wallets : w <= v

\* the goroutine of handleLog for wallet w reaches l.stopLossMonitor.AddPosition
Call(w) ==
    /\ wpc[w] = "idle"
    /\ \E base \in Tokens : event' = [base |-> base]
    /\ wpc' = [wpc EXCEPT ![w] = "lock"]
    /\ wres' = [wres EXCEPT ![w] = [NoRes EXCEPT !.buys = 1, !.buy = "ok"]]
    /\ UNCHANGED <<lpc, attempt, client, dials, taken, handled, verdict>>
    /\ UNCHANGED <<monVars, sigVars>>
    /\ log' = {}

\* the goroutine for wallet w ends
Return(w) ==
    /\ wpc[w] = "done"
    /\ wpc' = [wpc EXCEPT ![w] = "idle"]
    /\ wres' = [wres EXCEPT ![w] = NoRes]
    /\ event' = IF \A v \in Wallets \ {w} : wpc[v] = "idle"
                THEN [base |-> "none"] ELSE event
    /\ UNCHANGED <<lpc, attempt, client, dials, taken, handled, verdict>>
    /\ UNCHANGED <<monVars, sigVars>>
    /\ log' = {}

ClientCall == Call(Client)

ClientReturn == Return(Client)

NextMonitor ==
    \/ MonitorTickFire
    \/ MonitorExit
    \/ TickLock
    \/ \E key \in Keys : TickEval(key, AllData)
    \/ TickUnlock
    \/ ClientCall
    \/ WalletAddLock(Client)
    \/ WalletAddPosition(Client, AllData)
    \/ ClientReturn
    \/ SignalStop

SpecMonitor == Init /\ [][NextMonitor]_vars

(***************************************************************************)
(* The monitor, never stopped, with one goroutine per wallet that calls    *)
(* AddPosition at any time, the extreme answers of the chain, and the      *)
(* skipped iterations logged                                               *)
(***************************************************************************)

TracedEdgeData == [EdgeData EXCEPT !.trace = "skips"]

NextPositions ==
    \/ MonitorTickFire
    \/ TickLock
    \/ \E key \in Keys : TickEval(key, TracedEdgeData)
    \/ TickUnlock
    \/ \E w \in Wallets : Call(w)
    \/ \E w \in Wallets : WalletAddLock(w)
    \/ \E w \in Wallets : WalletAddPosition(w, TracedEdgeData)
    \/ \E w \in Wallets : Return(w)

SpecPositions == Init /\ [][NextPositions]_vars

(***************************************************************************)
(* AddPosition called for wallet indexes on both sides of the code points  *)
(* that string(rune(walletIndex)) cannot represent (the surrogates start   *)
(* at 55296), as one call each                                             *)
(***************************************************************************)

WalletIndexSamples == {0, 55295, 55296, 55297}

\* AddPosition(walletIndex, ...) from m.mu.Lock() to the deferred Unlock
RegisterAt(walletIndex, data) ==
    /\ mu = <<"free">>
    /\ \E base \in Tokens :
       \E balance \in data.balances :
       \E price \in (IF AddPositionDrops(balance) THEN {Fail} ELSE data.prices) :
          LET r == AddPosition(walletIndex, base, BuyAmountWei(walletIndex), balance, price)
          IN  /\ positions' = r[1]
              /\ hist' = r[2]
              /\ log' = {[event |-> taken, outcome |-> "register",
                          index |-> walletIndex, token |-> base, inserted |-> r[3]]}
    /\ UNCHANGED <<stopLossPercent, mu, mpc, tickTodo, tickHist>>
    /\ UNCHANGED <<lisVars, walVars, sigVars>>

NextKeys == \E i \in WalletIndexSamples : RegisterAt(i, EdgeData)

SpecKeys == Init /\ [][NextKeys]_vars

(***************************************************************************)
(* Claims                                                                  *)
(***************************************************************************)

\* the stop-loss sell calls of a log entry
SlSells(e) == {i \in 1 .. Len(e.sells) : e.sells[i].rule = "sl"}
TpSells(e) == {i \in 1 .. Len(e.sells) : e.sells[i].rule = "tp"}

\* the step is the AddPosition call that inserted a position under key k
Reinserted(k) ==
    \E w \in Wallets :
        /\ wpc[w] = "add"
        /\ wpc'[w] = "done"
        /\ wres'[w].reg
        /\ positionKey(w, event.base) = k

\* handleLog's wg.Wait() returns in this step
Release == lpc = "barrier" /\ lpc' = "active"

\* C1 (as claimed): a position is removed from the live set only by an iteration
\* whose stop-loss sell of the full tracked balance was sent successfully.
\* checkPositions deletes the position whatever executeSell did.
C1_RemovedOnlyBySentSell ==
    \A e \in log :
        e.removed =>
            \E i \in SlSells(e) : e.sells[i].sent /\ e.sells[i].amount = e.sells[i].held

\* C2 (as claimed): whenever the stop-loss condition is met, exactly one stop-loss
\* sell call is issued, for the full tracked balance, and the position is gone.
C2_ExactlyOneFullSell ==
    \A e \in log :
        e.slTriggers = 1 =>
            /\ Cardinality(SlSells(e)) = 1
            /\ \A i \in SlSells(e) : e.sells[i].amount = e.sells[i].held
            /\ e.key \notin Live

\* C2 (amended): the stop-loss rule fires at most once in a position's lifetime,
\* because the iteration in which it fires always removes the position; in that
\* iteration one sell call for the full tracked balance is issued if the position
\* is approved by then, and none if the approve call failed; no stop-loss sell is
\* issued in any other iteration.
C2_StopLossOnce ==
    \A e \in log :
        /\ e.slTriggers <= 1
        /\ e.removed <=> e.slTriggers = 1
        /\ e.slTriggers = 0 => SlSells(e) = {}
        /\ e.slTriggers = 1 =>
              /\ e.key \notin Live
              /\ Cardinality(SlSells(e)) = (IF e.approved THEN 1 ELSE 0)
              /\ \A i \in SlSells(e) : e.sells[i].amount = e.sells[i].held

\* C2 witness: the stop-loss fired and its full sell was sent
C2_Witness ==
    \E e \in log :
        e.slTriggers = 1 /\ \E i \in SlSells(e) : e.sells[i].sent /\ e.sells[i].amount > 0

\* C3 (as claimed): at most one approve call per position lifetime, failed calls
\* included.
C3_AtMostOneApproveCall ==
    /\ \A k \in Live : Len(hist[k].approvals) <= 1
    /\ \A e \in log : Len(e.approvals) <= 1

\* every approve call but the last one failed, and there are at most two
ApprovalsOK(a) == Len(a) <= 2 /\ \A i \in 1 .. Len(a) - 1 : ~a[i]

\* C3 (amended): no approve call is issued for a position after one has
\* succeeded; a failed approve call is repeated by the next sell attempt, so a
\* position sees at most two approve calls (one per rule) and at most one
\* successful one, and its approved flag is set exactly when the last one succeeded.
C3_NoApproveAfterSuccess ==
    /\ \A k \in Live :
          /\ ApprovalsOK(hist[k].approvals)
          /\ positions[k].Approved <=>
                (hist[k].approvals # << >> /\ hist[k].approvals[Len(hist[k].approvals)])
    /\ \A e \in log : ApprovalsOK(e.approvals)

\* C3 witness: a stop-loss sell in a later tick than the take-profit sell, with
\* the one approve call of the take-profit sell
C3_Witness ==
    \E e \in log :
        /\ e.approvals = <<TRUE>>
        /\ e.tpFires = 1
        /\ e.tpNow = 0
        /\ SlSells(e) # {}

C4_Inv ==
    /\ \A k \in Live :
          /\ hist[k].tpFires <= 1
          /\ positions[k].TakeProfitDone <=> hist[k].tpFires = 1
    /\ \A e \in log : e.tpFires <= 1 /\ e.tpNow >= Cardinality(TpSells(e))

C4_Step ==
    \A k \in Live \cap Live' :
        (positions[k].TakeProfitDone /\ ~Reinserted(k)) => positions'[k].TakeProfitDone

\* C4: the take-profit rule fires in at most one iteration of a position's
\* lifetime, and the flag, once set, stays set for as long as the position is
\* in the live set (a registration under the same key starts a new position).
C4_TakeProfitAtMostOnce == [] C4_Inv /\ [][C4_Step]_vars

\* C4 witness: a position whose take-profit fired in an earlier tick is
\* evaluated again and stays live
C4_Witness ==
    \E e \in log :
        e.refreshed /\ ~e.removed /\ e.takeProfitDone /\ e.tpFires = 1 /\ e.tpNow = 0

\* C5: every sell call has an amount greater than zero and at most the
\* balance tracked for the position when the call is made.
C5_SellWithinBalance ==
    \A e \in log :
        \A i \in 1 .. Len(e.sells) :
            e.sells[i].amount > 0 /\ e.sells[i].amount <= e.sells[i].held

\* C5 witness: a take-profit sell capped at a balance below 70% of the initial
\* amount, followed by the stop-loss sell
C5_Witness ==
    \E e \in log :
        /\ Len(e.sells) = 2
        /\ e.sells[1].rule = "tp"
        /\ e.sells[1].amount = e.sells[1].held
        /\ e.sells[1].held < (MaxBalance * TakeProfitSellPercent) \div 100

\* C6: reconnect makes at most maxReconnectAttempts attempts, and Start returns
\* the error exactly after the last of them failed.
C6_ReconnectCeiling ==
    /\ dials <= maxReconnectAttempts
    /\ lpc = "reconnect" => dials = attempt - 1
    /\ lpc = "done_err" => dials = maxReconnectAttempts

C6_Witness == lpc = "done_err" /\ dials = maxReconnectAttempts

\* C7 (as claimed): once the cancellation signal is raised, no further reconnect
\* attempt is started and Start does not return the reconnect error.
\* reconnect never looks at ctx.
C7_CancelStopsReconnect ==
    [][ctxDone => (dials' <= dials /\ lpc' # "done_err")]_vars

\* C8: while a per-wallet goroutine of handleLog is running, the subscription
\* loop is blocked in wg.Wait() (it handles no event, probes nothing, reconnects
\* nothing), and every event received is handled exactly once.
C8_Serialized ==
    /\ \A w \in Wallets : wpc[w] \notin {"idle", "done"} => lpc = "barrier"
    /\ lpc # "barrier" => \A w \in Wallets : wpc[w] = "idle"
    /\ \A e \in 1 .. MaxEvents : handled[e] = (IF e <= taken THEN 1 ELSE 0)

\* C8 witness: one goroutine is done, another is in its settlement delay or in
\* AddPosition, and the loop waits
C8_Witness ==
    /\ lpc = "barrier"
    /\ \E w1, w2 \in Wallets :
          wpc[w1] = "done" /\ wpc[w2] \in {"sleep", "lock", "add"}

\* C9 (as claimed): when the barrier is released, the wallets with a live
\* position for the event's token are exactly those whose buy returned a
\* transaction and whose balance read was positive.
C9_LiveExactlyTheBuyers ==
    [][Release =>
          {w \in Wallets : positionKey(w, event.base) \in Live'}
              = {w \in Wallets : wres[w].buy = "ok" /\ wres[w].bal = "pos"}]_vars

\* C9 (amended): one buy attempt is made per wallet; a wallet whose buy failed
\* never calls AddPosition; a position was registered for exactly the wallets whose
\* buy returned a transaction and whose balance read was positive; and when the
\* barrier is released each of these positions is in the live set unless a
\* monitor tick has removed it by stop-loss in the meantime.
C9_RegisteredExactlyTheBuyers ==
    [][Release =>
          \A w \in Wallets :
              /\ wres[w].buys = 1
              /\ wres[w].buy = "fail" => (wres[w].bal = "none" /\ ~wres[w].reg)
              /\ wres[w].reg <=> (wres[w].buy = "ok" /\ wres[w].bal = "pos")
              /\ wres[w].reg =>
                    (positionKey(w, event.base) \in Live' <=> ~wres[w].lost)]_vars

\* C9 witness: the barrier is about to open, one wallet's buy failed and another
\* wallet registered its position
C9_Witness ==
    /\ lpc = "barrier"
    /\ BarrierOpen
    /\ \E w1, w2 \in Wallets : wres[w1].buy = "fail" /\ wres[w2].reg

\* C10: an AddPosition call whose balance query fails or returns a balance <= 0
\* leaves the live set as it was.
C10_DroppedRegistration ==
    [][\A w \in Wallets :
          (wpc[w] = "add" /\ wpc'[w] = "done" /\ wres'[w].bal \in {"err", "zero"})
              => positions' = positions]_vars

\* C10 witness: a registration was dropped while a position is live under its key
C10_Witness ==
    \E w \in Wallets :
        /\ wpc[w] = "done"
        /\ wres[w].bal \in {"err", "zero"}
        /\ positionKey(w, event.base) \in Live

\* the iteration met the take-profit condition: the flag was not set, the balance
\* refresh gave a positive balance and the USDT quote reached the threshold
TpMet(e) ==
    ~e.wasDone /\ e.balance = "pos" /\ e.quoted /\ e.quote >= TakeProfitPriceUSDT

Min(a, b) == IF a <= b THEN a ELSE b

\* C11: when the take-profit condition is met, the amount of the sell call is
\* min(floor(initial * 70 / 100), tracked balance), the flag is set even when
\* that amount is zero (and then no sell call is made), and an iteration whose
\* stop-loss rule did not fire leaves the position in the live set.
C11_TakeProfitAmount ==
    \A e \in log :
        /\ \A i \in TpSells(e) :
              /\ TpMet(e)
              /\ e.sells[i].amount =
                    Min((e.initial * TakeProfitSellPercent) \div 100, e.sells[i].held)
        /\ TpMet(e) =>
              /\ e.takeProfitDone
              /\ Cardinality(TpSells(e)) <= 1
              /\ (e.initial * TakeProfitSellPercent) \div 100 = 0 => TpSells(e) = {}
        /\ e.slTriggers = 0 => (~e.removed /\ e.key \in Live)

\* C11 witness: a take-profit sell of 70% of the initial amount, below the
\* tracked balance, after which the position is still live with its flag set
C11_Witness ==
    \E e \in log :
        /\ ~e.removed /\ e.takeProfitDone /\ e.key \in Live
        /\ \E i \in TpSells(e) :
              e.sells[i].amount < e.sells[i].held /\ e.sells[i].amount > 0

\* C12: for reference price r and current price c, the drop percentage is 0
\* when r = 0 or c >= r and floor((r - c) * 100 / r) otherwise; it lies in
\* 0..100; with r = 0 the stop-loss rule does not fire for a threshold > 0.
C12_DropPercent ==
    \A e \in log :
        e.priced =>
            /\ e.drop = (IF e.ref = 0 \/ e.cur >= e.ref THEN 0
                         ELSE ((e.ref - e.cur) * 100) \div e.ref)
            /\ e.drop \in 0 .. 100
            /\ (e.ref = 0 /\ stopLossPercent > 0) => (e.slTriggers = 0 /\ ~e.removed)

\* C12 witness: a drop whose percentage is not a whole number is rounded down
C12_Witness ==
    \E e \in log :
        e.priced /\ e.cur < e.ref /\ e.drop > 0 /\ e.drop * e.ref < (e.ref - e.cur) * 100

\* the number of goroutines inside a critical section of m.mu
InCritical ==
    Cardinality({w \in Wallets : wpc[w] = "add"}) + (IF mpc = "tick" THEN 1 ELSE 0)

C13_Step ==
    /\ \A w \in Wallets : (mpc = "tick" /\ wpc[w] = "lock") => wpc'[w] = "lock"
    /\ (mpc = "tick" /\ positions' # positions) =>
          (tickTodo' # tickTodo /\ DOMAIN positions' \subseteq DOMAIN positions)
    /\ (mpc = "tick" /\ mpc' # "tick") =>
          \A k \in Keys : tickHist.evals[k] = (IF k \in tickHist.start THEN 1 ELSE 0)

\* C13: at most one of the ticks and AddPosition calls is inside its critical
\* section; an AddPosition call that arrives during a tick waits and the position
\* set changes during a tick only by the tick's own iterations; a tick ends only
\* after one iteration for each position that was live when it began, and none
\* for any other key.
C13_MutualExclusion == [] (InCritical <= 1) /\ [][C13_Step]_vars

\* C13 witness: a tick has evaluated the positions it found while an
\* AddPosition call of another wallet waits for the lock
C13_Witness ==
    /\ mpc = "tick"
    /\ tickTodo = {}
    /\ tickHist.start # {}
    /\ \E w \in Wallets : wpc[w] = "lock" /\ positionKey(w, event.base) \notin tickHist.start

\* C14 (as claimed): once Stop() has cancelled the monitor's context, a running
\* tick is completed and no new tick is started.
\* Start's select picks at random between ctx.Done() and a ticker.C that is
\* ready too, and main returns as soon as the listener's Start does.
C14_NoTickAfterStop ==
    [][mctxDone =>
          /\ ~(mpc = "wait" /\ mpc' = "locking")
          /\ (mpc = "tick" /\ Alive) => Alive']_vars

C15_Step ==
    /\ (lpc # "done_err" /\ lpc' = "done_err") =>
          (lpc = "reconnect" /\ attempt > maxReconnectAttempts)
    /\ (lpc # "done_nil" /\ lpc' = "done_nil") => ctxDone
    /\ (mpc # "stopped" /\ mpc' = "stopped") => (mpc = "wait" /\ mctxDone)

\* C15: Start returns an error only out of a reconnect whose
\* maxReconnectAttempts attempts all failed, and returns nil only after
\* cancellation; the monitor loop exits only after Stop().
C15_OnlyReconnectIsFatal ==
    /\ [] (lpc = "done_err" =>
              (dials = maxReconnectAttempts /\ attempt = maxReconnectAttempts + 1))
    /\ [] (mpc = "stopped" => mctxDone)
    /\ [][C15_Step]_vars

\* C15 witness: an event was handled, the subscription then ended with an error,
\* a reconnect attempt failed and a later one succeeded, and Start and the
\* monitor are still running
C15_Witness ==
    /\ lpc = "loop"
    /\ taken >= 1
    /\ dials >= 2
    /\ client = "open"
    /\ mpc # "stopped"
    /\ ~ctxDone

\* the approve call or the sell call of the iteration's take-profit sell failed
TpFailed(e) ==
    \/ \E i \in 1 .. Len(e.approves) : e.approves[i].rule = "tp" /\ ~e.approves[i].ok
    \/ \E i \in TpSells(e) : ~e.sells[i].sent

\* C16 (as claimed): a take-profit sell whose approve call or sell call failed
\* leaves the take-profit flag unset, so that it is attempted again.
\* checkTakeProfit sets TakeProfitDone whatever executeSell did.
C16_FailedTakeProfitRetried ==
    \A e \in log : (TpMet(e) /\ TpFailed(e)) => ~e.takeProfitDone

\* the step is an iteration of checkPositions whose balance refresh failed or
\* returned a balance <= 0
SkippedBy(e) == e.balance \in {"err", "zero"}

C17_Step ==
    /\ \A e \in log' :
          SkippedBy(e) =>
              /\ positions' = positions
              /\ hist' = hist
              /\ ~e.refreshed /\ ~e.removed /\ e.key \in Live'
              /\ e.valuations = 0 /\ e.approves = << >> /\ e.sells = << >>
              /\ mpc' = "tick"
              /\ tickTodo' = tickTodo \ {e.key}
    /\ (mpc = "tick" /\ mpc' # "tick") =>
          \A k \in tickHist.start : tickHist.evals[k] = 1

\* C17: an iteration whose balance refresh fails or returns a balance <= 0
\* leaves the position and the position set as they were, makes no valuation,
\* approve or sell call, and the tick goes on: it ends only after an iteration
\* for every position that was live when it began.
C17_SkipLeavesPosition == [][C17_Step]_vars

\* C17 witness: in a tick that skipped one position, another position has got
\* past its balance refresh
C17_Witness ==
    /\ mpc = "tick"
    /\ tickHist.skipped # {}
    /\ \E k \in tickHist.start \ tickHist.skipped : tickHist.evals[k] = 1

\* the outcomes of handleLog's early returns
DroppedOutcomes == {"badparse", "classerr", "nottax"}

C18_Step ==
    \A e \in log' :
        e.outcome \in DroppedOutcomes =>
            /\ lpc = "active" /\ lpc' = "active"
            /\ \A w \in Wallets : wpc[w] = "idle" /\ wpc'[w] = "idle"
            /\ wres' = wres
            /\ positions' = positions
            /\ client' = client /\ attempt' = attempt
            /\ verdict'[e.event] = "dropped"

\* C18: a handleLog call whose payload does not parse, whose IsTaxToken call
\* fails or whose token is not a tax token starts no goroutine (no buy, no
\* registration) and returns to subscribe's select loop, which is still active.
C18_DroppedEvent == [][C18_Step]_vars

\* C18 witness: after a dropped event the next event was received and is being
\* bought
C18_Witness ==
    /\ taken = 2
    /\ verdict[1] = "dropped"
    /\ verdict[2] = "tax"
    /\ lpc = "barrier"
    /\ \E w \in Wallets : wpc[w] = "buy"

\* the variables of the listener and of its goroutines other than lpc
ListenerRest == <<attempt, client, dials, taken, event, handled, verdict, wpc, wres>>

C19_Step ==
    /\ \A e \in log' :
          e.outcome \in {"probefail", "streamerr"} =>
              /\ lpc = "active" /\ lpc' = "suberr"
              /\ ListenerRest' = ListenerRest
    /\ (lpc = "suberr" /\ lpc' # "suberr") =>
          \/ ~ctxDone /\ lpc' = "reconnect" /\ client' = "closed"
          \/ ctxDone /\ lpc' = "done_nil"
    /\ lpc \in {"suberr", "reconnect"} => (taken' = taken /\ handled' = handled)

\* C19: a failed liveness probe ends subscribe with an error exactly as a stream
\* error does, changing nothing else; from there Start, unless cancelled, enters
\* reconnect (which closes the client), and no event is handled until the
\* reconnect is over.
C19_ProbeFailureReconnects == [][C19_Step]_vars

\* C19 witness: the probe has just failed on an active subscription that had
\* handled an event, and no cancellation was signalled
C19_Witness ==
    /\ lpc = "suberr"
    /\ ~ctxDone
    /\ taken >= 1
    /\ \E e \in log : e.outcome = "probefail"

C20_Step ==
    /\ \A e \in log' :
          e.outcome = "attempt" =>
              /\ e.installed <=> (e.dialed /\ e.probed)
              /\ e.installed => (client' = "open" /\ ~e.closedNew)
              /\ ~e.installed => client' = client
              /\ (e.dialed /\ ~e.installed) => e.closedNew
    /\ client' # client => lpc = "suberr" \/ lpc = "reconnect"

\* C20: a reconnect attempt installs the handle it dialed as l.client exactly
\* when the dial and the height probe succeeded, and closes it when the probe
\* failed; l.client changes nowhere else but at the start of reconnect; and
\* whenever Start is about to call subscribe, l.client is a handle that has not
\* been closed.
C20_LiveHandle ==
    /\ [] ((lpc = "loop" \/ lpc = "active" \/ lpc = "barrier") => client = "open")
    /\ [][C20_Step]_vars

\* C20 witness: an attempt whose probe failed closed the handle it had dialed,
\* and l.client is still the closed one
C20_Witness ==
    /\ lpc = "reconnect"
    /\ client = "closed"
    /\ \E e \in log : e.outcome = "attempt" /\ e.dialed /\ ~e.probed /\ e.closedNew

\* the position is that of another (wallet index, token address) pair than the
\* one the logged AddPosition call was made for
OtherPair(pos, e) == pos.WalletIndex # e.index \/ pos.TokenAddress # e.token

\* C21 (as claimed): distinct (wallet index, token address) pairs never share a
\* key, so an AddPosition call for one pair leaves the position of every other
\* pair as it was.
\* string(rune(walletIndex)) is U+FFFD for every index that is not a valid code
\* point.
C21_OtherPairsUntouched ==
    [][\A e \in log' :
          (e.outcome = "register" /\ e.inserted) =>
              \A k \in DOMAIN positions :
                  OtherPair(positions[k], e) =>
                      (k \in DOMAIN positions' /\ positions'[k] = positions[k])]_vars

\* the amounts of a sequence of sell calls, added up
RECURSIVE SoldTotal(_)
SoldTotal(sells) ==
    IF sells = <<>> THEN 0 ELSE Head(sells).amount + SoldTotal(Tail(sells))

\* C22 (as claimed): the sell calls issued for one position within one tick add
\* up to at most the balance refreshed for it at the start of that tick.
\* The take-profit sell does not reduce pos.TokenAmount, which the stop-loss
\* then sells in full.
C22_TickSellsWithinBalance ==
    \A e \in log :
        (e.refreshed /\ e.sells # <<>>) => SoldTotal(e.sells) <= e.sells[1].held

\* C23 (as claimed): if no subscribe call ever succeeds and no shutdown is
\* signalled, Start eventually returns the error of reconnect.
\* Every call of reconnect counts its attempts from 1 again.
C23_FatalWithoutActive ==
    ([](lpc # "active") /\ []~mctxDone /\ []~ctxDone) => <>(lpc = "done_err")

\* m.mu is held only by a goroutine that is inside AddPosition or
\* checkPositions
HeldInside ==
    /\ mu = <<"tick">> => mpc = "tick"
    /\ \A w \in Wallets : mu = <<"add", w>> => wpc[w] = "add"

\* C24: with every goroutine scheduled and every call returning, m.mu is never
\* left locked by a goroutine that returned, a goroutine
\* waiting for m.mu in AddPosition gets it, a checkPositions waiting for m.mu
\* gets it unless the process ends first, reconnect (which holds l.mu from its
\* first to its last statement) ends, and every wg.Wait() of handleLog returns.
C24_DeadlockFree ==
    /\ []HeldInside
    /\ \A w \in Wallets : (wpc[w] = "lock") ~> (wpc[w] = "add")
    /\ (mpc = "locking") ~> (mpc = "tick" \/ ~Alive)
    /\ (lpc = "reconnect") ~> (lpc # "reconnect")
    /\ (lpc = "barrier") ~> (lpc = "active")

\* C24 witness: handleLog waits at its barrier while one wallet's AddPosition
\* holds m.mu and both another wallet's AddPosition and checkPositions wait
\* for it
C24_Witness ==
    /\ lpc = "barrier"
    /\ mpc = "locking"
    /\ \E w1, w2 \in Wallets : mu = <<"add", w1>> /\ wpc[w2] = "lock"

\* C25 (as claimed): whatever threshold the configuration yields, a position
\* whose current valuation is at least its reference price is not stop-loss
\* sold and not removed.
\* An unparsable STOP_LOSS_PERCENT yields 0, and a drop of 0 is >= 0.
C25_NoStopLossWithoutDrop ==
    \A e \in log :
        (e.priced /\ e.cur >= e.ref) => (e.slTriggers = 0 /\ ~e.removed)

====
